---- MODULE Spec2Model ----
(***************************************************************************)
(* Supply Chain Guardian: the inventory store (database.py), the alert     *)
(* scan (alerting.py) and the weather risk assessment                      *)
(* (external_services.py) as a state machine.                              *)
(*                                                                         *)
(* Tables are sequences of rows in insertion order.  Alert messages and    *)
(* timestamps carry no control flow and are left out of the rows, except   *)
(* resolved_at, which is kept as a nullable column.                        *)
(***************************************************************************)
EXTENDS Integers, Sequences, FiniteSets, TLC

VARIABLES products,    \* table products
          shipments,   \* table shipments
          alerts,      \* table stock_alerts
          next_id,     \* autoincrement counter of stock_alerts.id
          publisher,   \* AlertingService.publisher is set (Pub/Sub configured)
          notified,    \* notification attempts made by _send_notification
          last,        \* the last completed call and what it returned
          scan,        \* per concurrent caller: its position inside check_and_alert
          wx,          \* one assess_logistics_risk call: provider data and result
          weather_service  \* WeatherService.mock_mode and what the provider answers

vars == <<products, shipments, alerts, next_id, publisher, notified, last, scan, wx,
          weather_service>>

(***************************************************************************)
(* Bounds                                                                  *)
(***************************************************************************)
MaxAlerts == 4          \* rows in stock_alerts
MaxForecastDays == 2    \* entries of a forecast
MaxStock == 12          \* largest stock level drawn for the stock-out estimate

None == "None"

(***************************************************************************)
(* setup_database.py: the seeded tables                                    *)
(***************************************************************************)
Product(id, stock, threshold, supplier, lead, status) ==
    [id |-> id, stock_level |-> stock, reorder_threshold |-> threshold,
     supplier_location |-> supplier, lead_time_days |-> lead, status |-> status]

ShipmentTracking(pid, origin, destination, status, delay) ==
    [product_id |-> pid, origin |-> origin, destination |-> destination,
     status |-> status, delay_days |-> delay]

sample_products ==
    << Product("CHIP-X", 15, 20, "Mumbai, India", 14, "Low"),
       Product("SENS-9", 82, 30, "Ho Chi Minh City, Vietnam", 21, "OK"),
       Product("LOGIC-A", 44, 25, "Shenzhen, China", 18, "OK"),
       Product("PWR-MOD", 9, 15, "Kochi, India", 16, "Critical"),
       Product("DISPLAY-HD", 55, 20, "Seoul, South Korea", 12, "OK") >>

sample_shipments ==
    << ShipmentTracking("CHIP-X", "Mumbai, India", "California, USA", "in_transit", 0),
       ShipmentTracking("PWR-MOD", "Kochi, India", "Florida, USA", "delayed", 2),
       ShipmentTracking("SENS-9", "Ho Chi Minh City, Vietnam", "Texas, USA", "in_transit", 0) >>

(***************************************************************************)
(* database.py: DatabaseManager                                            *)
(***************************************************************************)
StockAlert(id, product_id, alert_type, severity) ==
    [id |-> id, product_id |-> product_id, alert_type |-> alert_type,
     severity |-> severity, resolved |-> FALSE, resolved_at |-> None]

\* update_stock comparing the threshold with < in place of <=
StockStatusStrict(new_stock, reorder_threshold) ==
    IF new_stock <= 0 THEN "Critical"
    ELSE IF new_stock < reorder_threshold THEN "Low"
    ELSE "OK"

\* the status update_stock stores for new_stock against the row's threshold
StockStatus(new_stock, reorder_threshold) ==
    IF new_stock <= 0 THEN "Critical"
    ELSE IF new_stock <= reorder_threshold THEN "Low"
    ELSE "OK"

\* index of the first row with this id, 0 when there is none (.first() is None)
RowOf(table, product_id) ==
    IF \E i \in 1..Len(table) : table[i].id = product_id
    THEN CHOOSE i \in 1..Len(table) :
            /\ table[i].id = product_id
            /\ \A j \in 1..(i - 1) : table[j].id # product_id
    ELSE 0

get_all_products == products

get_shipments_by_status(status) ==
    SelectSeq(shipments, LAMBDA s : s.status = status)

get_active_alerts ==
    SelectSeq(alerts, LAMBDA a : a.resolved = FALSE)

\* create_alert inserting the row without advancing the id sequence
create_alertStaleId(st, product_id, alert_type, severity) ==
    [st EXCEPT !.alerts = Append(@, StockAlert(st.next_id, product_id, alert_type, severity))]

\* the row create_alert inserts; its id comes from the autoincrement counter
create_alert(st, product_id, alert_type, severity) ==
    [st EXCEPT !.alerts = Append(@, StockAlert(st.next_id, product_id, alert_type, severity)),
               !.next_id = @ + 1]

(***************************************************************************)
(* alerting.py: AlertingService                                            *)
(***************************************************************************)
AlertRequest(product_id, alert_type, severity) ==
    [product_id |-> product_id, alert_type |-> alert_type, severity |-> severity]

\* one notification attempt: Pub/Sub when a publisher is configured (a failed
\* publish is caught and printed), the console otherwise
_send_notification(st, alert_data, publishOk) ==
    [st EXCEPT !.notified =
        Append(@, IF publisher
                  THEN [alert_id |-> alert_data.alert_id, channel |-> "pubsub", ok |-> publishOk]
                  ELSE [alert_id |-> alert_data.alert_id, channel |-> "console", ok |-> TRUE])]

\* _create_alert notifying whatever the severity
_create_alertNotifyAll(st, req, publishOk) ==
    LET saved == create_alert(st, req.product_id, req.alert_type, req.severity)
        alert_data == [alert_id |-> st.next_id, product_id |-> req.product_id,
                       alert_type |-> req.alert_type, severity |-> req.severity]
        sent == _send_notification(saved, alert_data, publishOk)
    IN [sent EXCEPT !.alerts_created = Append(@, alert_data)]

\* _create_alert followed by alerts_created.append(alert) of the caller
_create_alert(st, req, publishOk) ==
    LET saved == create_alert(st, req.product_id, req.alert_type, req.severity)
        alert_data == [alert_id |-> st.next_id, product_id |-> req.product_id,
                       alert_type |-> req.alert_type, severity |-> req.severity]
        sent == IF req.severity \in {"High", "Critical"}
                THEN _send_notification(saved, alert_data, publishOk)
                ELSE saved
    IN [sent EXCEPT !.alerts_created = Append(@, alert_data)]

\* the branch check_and_alert takes for one product: the alert it asks for
ProductCheck(product) ==
    IF product.stock_level <= 0
    THEN << AlertRequest(product.id, "critical_stock", "High") >>
    ELSE IF product.stock_level <= product.reorder_threshold
    THEN << AlertRequest(product.id, "low_stock", "Medium") >>
    ELSE << >>

\* the shipment branch comparing delay_days with >= in place of >
ShipmentCheckFromThree(shipment) ==
    IF shipment.delay_days >= 3
    THEN << AlertRequest(shipment.product_id, "delayed_shipment", "High") >>
    ELSE << >>

\* the branch check_and_alert takes for one delayed shipment
ShipmentCheck(shipment) ==
    IF shipment.delay_days > 3
    THEN << AlertRequest(shipment.product_id, "delayed_shipment", "High") >>
    ELSE << >>

RECURSIVE ProductRequests(_, _)
ProductRequests(rows, i) ==
    IF i > Len(rows) THEN << >>
    ELSE ProductCheck(rows[i]) \o ProductRequests(rows, i + 1)

RECURSIVE ShipmentRequests(_, _)
ShipmentRequests(rows, i) ==
    IF i > Len(rows) THEN << >>
    ELSE ShipmentCheck(rows[i]) \o ShipmentRequests(rows, i + 1)

\* the _create_alert calls of one scan, in the order the two loops make them
ScanRequests ==
    ProductRequests(get_all_products, 1)
        \o ShipmentRequests(get_shipments_by_status("delayed"), 1)

\* the calls up to, not including, the one whose insert raises (failAt = 0: none
\* raises); get_session rolls back and re-raises, nothing catches it
RECURSIVE ScanLoop(_, _, _, _, _)
ScanLoop(reqs, i, st, failAt, pubFailAt) ==
    IF i > Len(reqs) THEN st
    ELSE IF i = failAt THEN [st EXCEPT !.raised = TRUE, !.failed = reqs[i]]
    ELSE ScanLoop(reqs, i + 1, _create_alert(st, reqs[i], i # pubFailAt), failAt, pubFailAt)

NoRequest == AlertRequest(None, None, None)

ScanStart ==
    [alerts |-> alerts, next_id |-> next_id, notified |-> notified,
     alerts_created |-> << >>, raised |-> FALSE, failed |-> NoRequest]

QueryOps == {"assess", "predict", "reorder", "resilience"}

OpTag ==
    IF last.op = "scan" THEN (IF last.raised THEN "scan_raised" ELSE "scan")
    ELSE IF last.op \in QueryOps THEN "query"
    ELSE last.op

NoCall == [op |-> "init", prev |-> "init", raised |-> FALSE, failed |-> NoRequest,
           returned |-> << >>, before |-> 0, sent |-> 0, ok |-> TRUE,
           product_id |-> None, result |-> << >>]

\* AlertingService.check_and_alert, one whole scan by a single caller
check_and_alert(failAt, pubFailAt) ==
    LET reqs == ScanRequests
        written == IF failAt = 0 THEN Len(reqs) ELSE failAt - 1
        out == ScanLoop(reqs, 1, ScanStart, failAt, pubFailAt)
    IN /\ failAt <= Len(reqs)
       /\ pubFailAt <= written
       /\ pubFailAt # 0 => (publisher /\ reqs[pubFailAt].severity \in {"High", "Critical"})
       /\ Len(alerts) + written <= MaxAlerts
       /\ alerts' = out.alerts
       /\ next_id' = out.next_id
       /\ notified' = out.notified
       /\ last' = [NoCall EXCEPT !.op = "scan", !.prev = OpTag, !.raised = out.raised,
                                 !.failed = out.failed,
                                 !.returned = IF out.raised THEN << >> ELSE out.alerts_created,
                                 !.before = Len(alerts),
                                 !.sent = Len(out.notified) - Len(notified)]
       /\ UNCHANGED <<products, shipments, publisher, scan, wx, weather_service>>

\* update_stock without the filter on Product.id: every row gets the new stock
update_stockEveryRow(product_id, new_stock) ==
    LET i == RowOf(products, product_id)
    IN /\ products' = [r \in 1..Len(products) |->
                          [products[r] EXCEPT !.stock_level = new_stock,
                               !.status = StockStatus(new_stock, products[r].reorder_threshold)]]
       /\ last' = [NoCall EXCEPT !.op = "update", !.prev = OpTag, !.ok = (i # 0),
                                 !.before = Len(alerts),
                                 !.product_id = product_id]
       /\ UNCHANGED <<shipments, alerts, next_id, publisher, notified, scan, wx, weather_service>>

\* DatabaseManager.update_stock
update_stock(product_id, new_stock) ==
    LET i == RowOf(products, product_id)
    IN /\ products' = IF i = 0 THEN products
                      ELSE [products EXCEPT ![i].stock_level = new_stock,
                                            ![i].status = StockStatus(new_stock, products[i].reorder_threshold)]
       /\ last' = [NoCall EXCEPT !.op = "update", !.prev = OpTag, !.ok = (i # 0),
                                 !.before = Len(alerts),
                                 !.product_id = product_id]
       /\ UNCHANGED <<shipments, alerts, next_id, publisher, notified, scan, wx, weather_service>>

(***************************************************************************)
(* external_services.py: WeatherService, the provider and the mock data    *)
(***************************************************************************)
Locations ==
    {"Mumbai, India", "Kochi, India", "Ho Chi Minh City, Vietnam", "California, USA",
     "Florida, USA", "Texas, USA", "Shenzhen, China", "Seoul, South Korea"}

\* a provider call that raised (connection error, timeout, HTTP error status)
Failed == [ok |-> FALSE, data |-> << >>]

Answered(data) == [ok |-> TRUE, data |-> data]

\* WEATHER_API_KEY unset: mock_mode, the provider is never called
MockService ==
    [mock_mode |-> TRUE,
     current |-> [l \in Locations |-> Failed],
     forecast |-> [l \in Locations |-> Failed]]

mock_conditions ==
    [k \in {"Mumbai", "Kochi", "Ho Chi Minh", "California", "Florida", "Texas"} |->
        CASE k = "Mumbai" -> [condition |-> "Clear", wind_speed |-> 5]
          [] k = "Kochi" -> [condition |-> "Rain", wind_speed |-> 12]
          [] k = "Ho Chi Minh" -> [condition |-> "Clouds", wind_speed |-> 7]
          [] k = "California" -> [condition |-> "Clear", wind_speed |-> 4]
          [] k = "Florida" -> [condition |-> "Thunderstorm", wind_speed |-> 18]
          [] k = "Texas" -> [condition |-> "Clear", wind_speed |-> 8]]

\* the first key of mock_conditions with key.lower() in location.lower(),
\* None when no key is a substring of the location
MockKey(location) ==
    CASE location = "Mumbai, India" -> "Mumbai"
      [] location = "Kochi, India" -> "Kochi"
      [] location = "Ho Chi Minh City, Vietnam" -> "Ho Chi Minh"
      [] location = "California, USA" -> "California"
      [] location = "Florida, USA" -> "Florida"
      [] location = "Texas, USA" -> "Texas"
      [] OTHER -> None

\* _get_mock_weather skipping the lookup and returning its default
_get_mock_weatherDefault(location) == [condition |-> "Clear", wind_speed |-> 5]

_get_mock_weather(location) ==
    IF MockKey(location) \in DOMAIN mock_conditions
    THEN mock_conditions[MockKey(location)]
    ELSE [condition |-> "Clear", wind_speed |-> 5]

\* entry i of range(days) is "Rain" when i % 3 == 0, "Clear" otherwise
_get_mock_forecast(location, days) ==
    [n \in 1..days |-> [condition |-> IF (n - 1) % 3 # 0 THEN "Clear" ELSE "Rain"]]

\* mock data in mock mode and in the except branch, the provider's data otherwise
get_current_weather(location) ==
    IF weather_service.mock_mode THEN _get_mock_weather(location)
    ELSE IF ~weather_service.current[location].ok THEN _get_mock_weather(location)
    ELSE weather_service.current[location].data

get_weather_forecast(location, days) ==
    IF weather_service.mock_mode THEN _get_mock_forecast(location, days)
    ELSE IF ~weather_service.forecast[location].ok THEN _get_mock_forecast(location, days)
    ELSE weather_service.forecast[location].data

(***************************************************************************)
(* The callers: the dashboard button and the CLI run a scan                 *)
(* (ui/app.py, alerting.py __main__), the ops agent updates stock            *)
(***************************************************************************)
Scanners == {1, 2}

Idle == [pc |-> "idle", rows |-> << >>, i |-> 0, alerts_created |-> << >>]

NoResult == [risk_level |-> None, delay_estimate_days |-> 0, risk_factors |-> << >>]

NoAssessment == [weather |-> [condition |-> None, wind_speed |-> 0], forecast |-> << >>,
                 assessed |-> FALSE, result |-> NoResult]

\* arguments the callers pass
UpdateIds == {"PWR-MOD", "NO-SUCH"}
NewStocks == {-1, 0, 9, 15, 20}

Scan ==
    \E failAt \in 0..MaxAlerts, pubFailAt \in 0..MaxAlerts :
        check_and_alert(failAt, pubFailAt)

UpdateStock ==
    \E product_id \in UpdateIds, new_stock \in NewStocks :
        update_stock(product_id, new_stock)

\* the state setup_database leaves
Init ==
    /\ products = sample_products
    /\ shipments = sample_shipments
    /\ alerts = << >>
    /\ next_id = 1
    /\ publisher \in BOOLEAN
    /\ notified = << >>
    /\ last = NoCall
    /\ scan = [s \in Scanners |-> Idle]
    /\ wx = NoAssessment
    /\ weather_service = MockService

Next == Scan \/ UpdateStock

Spec == Init /\ [][Next]_vars

(***************************************************************************)
(* The same operations over other contents of the store: two product rows  *)
(* and two shipment rows drawn from small sets                             *)
(***************************************************************************)
DbStocks == {0, 9, 20}
DbThresholds == {0, 15}
Statuses == {"OK", "Low", "Critical"}
DbDelays == {3, 4}

InitDb ==
    /\ \E s \in DbStocks, t \in DbThresholds, st \in Statuses :
          products = << Product("CHIP-X", 15, 20, "Mumbai, India", 14, "Low"),
                        Product("PWR-MOD", s, t, "Kochi, India", 16, st) >>
    /\ \E d \in DbDelays :
          shipments = << ShipmentTracking("CHIP-X", "Mumbai, India", "California, USA", "delayed", d),
                         ShipmentTracking("CHIP-X", "Mumbai, India", "California, USA", "delayed", 5),
                         ShipmentTracking("PWR-MOD", "Kochi, India", "Florida, USA", "in_transit", 6) >>
    /\ alerts = << >>
    /\ next_id = 1
    /\ publisher = FALSE
    /\ notified = << >>
    /\ last = NoCall
    /\ scan = [s \in Scanners |-> Idle]
    /\ wx = NoAssessment
    /\ weather_service = MockService

SpecDb == InitDb /\ [][Next]_vars

(***************************************************************************)
(* Two callers inside check_and_alert at once (one dashboard session each, *)
(* sharing the AlertingService and DatabaseManager singletons).  Every     *)
(* database call is its own session, so the calls of the two scans         *)
(* interleave; one step is one query or one loop iteration.  The store's   *)
(* products stay as seeded while the two scans run.                        *)
(***************************************************************************)
\* products = self.db.get_all_products(); alerts_created = []
ReadProducts(s) ==
    /\ scan[s].pc = "idle"
    /\ scan' = [scan EXCEPT ![s] = [pc |-> "products", rows |-> get_all_products,
                                    i |-> 1, alerts_created |-> << >>]]
    /\ UNCHANGED <<products, shipments, alerts, next_id, publisher, notified, last, wx, weather_service>>

\* one iteration of either loop: reqs is the alert the iteration asks for
LoopStep(s, reqs) ==
    IF reqs = << >>
    THEN /\ scan' = [scan EXCEPT ![s].i = @ + 1]
         /\ UNCHANGED <<alerts, next_id, notified, last>>
    ELSE \E insertOk \in BOOLEAN, publishOk \in BOOLEAN :
            /\ ~publishOk => (insertOk /\ publisher /\ reqs[1].severity \in {"High", "Critical"})
            /\ IF insertOk
               THEN LET out == _create_alert([ScanStart EXCEPT !.alerts_created = scan[s].alerts_created],
                                             reqs[1], publishOk)
                    IN /\ Len(alerts) < MaxAlerts
                       /\ alerts' = out.alerts
                       /\ next_id' = out.next_id
                       /\ notified' = out.notified
                       /\ scan' = [scan EXCEPT ![s].i = @ + 1,
                                               ![s].alerts_created = out.alerts_created]
                       /\ UNCHANGED last
               ELSE /\ scan' = [scan EXCEPT ![s] = Idle]
                    /\ last' = [NoCall EXCEPT !.op = "scan", !.prev = OpTag, !.raised = TRUE,
                                              !.failed = reqs[1]]
                    /\ UNCHANGED <<alerts, next_id, notified>>

\* for product in products: ...
CheckProduct(s) ==
    /\ scan[s].pc = "products"
    /\ scan[s].i <= Len(scan[s].rows)
    /\ LoopStep(s, ProductCheck(scan[s].rows[scan[s].i]))
    /\ UNCHANGED <<products, shipments, publisher, wx, weather_service>>

\* delayed_shipments = self.db.get_shipments_by_status("delayed")
ReadShipments(s) ==
    /\ scan[s].pc = "products"
    /\ scan[s].i > Len(scan[s].rows)
    /\ scan' = [scan EXCEPT ![s].pc = "shipments", ![s].i = 1,
                            ![s].rows = get_shipments_by_status("delayed")]
    /\ UNCHANGED <<products, shipments, alerts, next_id, publisher, notified, last, wx, weather_service>>

\* for shipment in delayed_shipments: ...
CheckShipment(s) ==
    /\ scan[s].pc = "shipments"
    /\ scan[s].i <= Len(scan[s].rows)
    /\ LoopStep(s, ShipmentCheck(scan[s].rows[scan[s].i]))
    /\ UNCHANGED <<products, shipments, publisher, wx, weather_service>>

\* return alerts_created
Return(s) ==
    /\ scan[s].pc = "shipments"
    /\ scan[s].i > Len(scan[s].rows)
    /\ scan' = [scan EXCEPT ![s] = Idle]
    /\ last' = [NoCall EXCEPT !.op = "scan", !.prev = OpTag,
                              !.returned = scan[s].alerts_created]
    /\ UNCHANGED <<products, shipments, alerts, next_id, publisher, notified, wx, weather_service>>

ReadProductsStep == \E s \in Scanners : ReadProducts(s)
CheckProductStep == \E s \in Scanners : CheckProduct(s)
ReadShipmentsStep == \E s \in Scanners : ReadShipments(s)
CheckShipmentStep == \E s \in Scanners : CheckShipment(s)
ReturnStep == \E s \in Scanners : Return(s)

NextConc ==
    \/ ReadProductsStep
    \/ CheckProductStep
    \/ ReadShipmentsStep
    \/ CheckShipmentStep
    \/ ReturnStep

SpecConc == Init /\ [][NextConc]_vars

(***************************************************************************)
(* external_services.py: WeatherService.assess_logistics_risk              *)
(***************************************************************************)
\* str.lower() on the condition names the provider and the mock data use
Lower(c) ==
    CASE c = "Thunderstorm" -> "thunderstorm"
      [] c = "Tornado" -> "tornado"
      [] c = "Hurricane" -> "hurricane"
      [] c = "Rain" -> "rain"
      [] c = "Snow" -> "snow"
      [] c = "Drizzle" -> "drizzle"
      [] c = "Clear" -> "clear"
      [] c = "Clouds" -> "clouds"
      [] OTHER -> c

SevereConditions == {"thunderstorm", "tornado", "hurricane"}
AdverseConditions == {"rain", "snow", "drizzle"}
\* the forecast test reusing the list of the current-condition test
ForecastConditionsAsCurrent == {"thunderstorm", "tornado", "hurricane"}

\* day_condition in [...] of the forecast loop
ForecastConditions == {"thunderstorm", "snow", "hurricane"}

\* the three tests on the current weather made independent ifs, each adding
\* its own increment
CurrentConditionsAdditive(weather) ==
    LET condition == Lower(weather.condition)
        wind_speed == weather.wind_speed
        severe == condition \in SevereConditions
        adverse == condition \in AdverseConditions /\ wind_speed > 10
        windy == wind_speed > 15
    IN [risk_level |-> IF severe THEN "High" ELSE IF adverse \/ windy THEN "Medium" ELSE "Low",
        delay_estimate_days |-> (IF severe THEN 3 ELSE 0) + (IF adverse THEN 1 ELSE 0)
                                    + (IF windy THEN 1 ELSE 0),
        risk_factors |-> (IF severe THEN << "Severe weather" >> ELSE << >>)
                            \o (IF adverse THEN << "Adverse conditions" >> ELSE << >>)
                            \o (IF windy THEN << "High winds" >> ELSE << >>)]

\* "Analyze current conditions": the if / elif / elif chain
CurrentConditions(weather) ==
    LET condition == Lower(weather.condition)
        wind_speed == weather.wind_speed
    IN IF condition \in SevereConditions
       THEN [risk_level |-> "High", delay_estimate_days |-> 3,
             risk_factors |-> << "Severe weather" >>]
       ELSE IF condition \in AdverseConditions /\ wind_speed > 10
       THEN [risk_level |-> "Medium", delay_estimate_days |-> 1,
             risk_factors |-> << "Adverse conditions" >>]
       ELSE IF wind_speed > 15
       THEN [risk_level |-> "Medium", delay_estimate_days |-> 1,
             risk_factors |-> << "High winds" >>]
       ELSE [risk_level |-> "Low", delay_estimate_days |-> 0, risk_factors |-> << >>]

\* the iteration setting the level to Medium without testing that it is Low
ForecastDaySetsMedium(acc, day_forecast) ==
    IF Lower(day_forecast.condition) \in ForecastConditions
    THEN [risk_level |-> "Medium",
          delay_estimate_days |-> acc.delay_estimate_days + 2,
          risk_factors |-> Append(acc.risk_factors, "Upcoming")]
    ELSE acc

\* one iteration of "Check forecast"
ForecastDay(acc, day_forecast) ==
    IF Lower(day_forecast.condition) \in ForecastConditions
    THEN [risk_level |-> IF acc.risk_level = "Low" THEN "Medium" ELSE acc.risk_level,
          delay_estimate_days |-> acc.delay_estimate_days + 2,
          risk_factors |-> Append(acc.risk_factors, "Upcoming")]
    ELSE acc

RECURSIVE ForecastLoop(_, _, _)
ForecastLoop(forecast, i, acc) ==
    IF i > Len(forecast) THEN acc
    ELSE ForecastLoop(forecast, i + 1, ForecastDay(acc, forecast[i]))

\* the assessment returning the level of the current conditions, the forecast
\* loop adding days and factors only
assess_logistics_riskCurrentLevel(weather, forecast) ==
    [ForecastLoop(forecast, 1, CurrentConditions(weather))
        EXCEPT !.risk_level = CurrentConditions(weather).risk_level]

assess_logistics_risk(weather, forecast) ==
    ForecastLoop(forecast, 1, CurrentConditions(weather))

\* what the provider (or the mock data) may return for a location
WeatherConditions == {"Thunderstorm", "Tornado", "Hurricane", "Rain", "Snow", "Drizzle", "Clear"}
WindSpeeds == {5, 10, 11, 15, 16}
DayConditions == {"Thunderstorm", "Tornado", "Hurricane", "Snow", "Rain"}
Forecasts == UNION {[1..n -> [condition : DayConditions]] : n \in 0..MaxForecastDays}

AssessRisk ==
    /\ ~wx.assessed
    /\ wx' = [wx EXCEPT !.assessed = TRUE,
                        !.result = assess_logistics_risk(wx.weather, wx.forecast)]
    /\ UNCHANGED <<products, shipments, alerts, next_id, publisher, notified, last, scan,
                   weather_service>>

InitRisk ==
    /\ products = sample_products
    /\ shipments = sample_shipments
    /\ alerts = << >>
    /\ next_id = 1
    /\ publisher = FALSE
    /\ notified = << >>
    /\ last = NoCall
    /\ scan = [s \in Scanners |-> Idle]
    /\ weather_service = MockService
    /\ \E c \in WeatherConditions, w \in WindSpeeds, f \in Forecasts :
          wx = [NoAssessment EXCEPT !.weather = [condition |-> c, wind_speed |-> w],
                                    !.forecast = f]

NextRisk == AssessRisk

SpecRisk == InitRisk /\ [][NextRisk]_vars

\* WeatherService.assess_logistics_risk(location): fetch both datasets, apply the rules
assess_location(location) ==
    LET weather == get_current_weather(location)
        forecast == get_weather_forecast(location, 7)
        risk == assess_logistics_risk(weather, forecast)
    IN  [location |-> location,
         risk_level |-> risk.risk_level,
         delay_estimate_days |-> risk.delay_estimate_days,
         risk_factors |-> risk.risk_factors,
         current_weather |-> weather]

(***************************************************************************)
(* agents/strat_agent.py: the three strategy tools                         *)
(***************************************************************************)
\* str.upper() on the product ids the callers pass
Upper(product_id) ==
    CASE product_id = "chip-x" -> "CHIP-X"
      [] product_id = "sens-9" -> "SENS-9"
      [] OTHER -> product_id

\* the shipment query without its status filter
InTransitAnyStatus(product_id) ==
    IF product_id # None
    THEN SelectSeq(shipments, LAMBDA s : s.product_id = Upper(product_id))
    ELSE shipments

InTransit(product_id) ==
    LET in_transit == get_shipments_by_status("in_transit")
    IN  IF product_id # None
        THEN SelectSeq(in_transit, LAMBDA s : s.product_id = Upper(product_id))
        ELSE in_transit

\* max_risk keeping the origin when the two estimates are equal
max_riskOriginOnTie(origin_risk, dest_risk) ==
    IF origin_risk.delay_estimate_days >= dest_risk.delay_estimate_days
    THEN origin_risk ELSE dest_risk

max_risk(origin_risk, dest_risk) ==
    IF origin_risk.delay_estimate_days > dest_risk.delay_estimate_days
    THEN origin_risk ELSE dest_risk

\* a prediction built from the origin assessment alone
PredictionOriginOnly(shipment_data) ==
    LET origin_risk == assess_location(shipment_data.origin)
    IN  [product_id |-> shipment_data.product_id,
         origin |-> shipment_data.origin,
         destination |-> shipment_data.destination,
         predicted_delay_days |-> origin_risk.delay_estimate_days,
         risk_level |-> origin_risk.risk_level,
         risk_factors |-> origin_risk.risk_factors,
         confidence |-> IF origin_risk.risk_level = "High" THEN 85 ELSE 70]

\* confidence in hundredths: 0.85 is 85, 0.7 is 70
Prediction(shipment_data) ==
    LET origin_risk == assess_location(shipment_data.origin)
        dest_risk == assess_location(shipment_data.destination)
        chosen == max_risk(origin_risk, dest_risk)
    IN  [product_id |-> shipment_data.product_id,
         origin |-> shipment_data.origin,
         destination |-> shipment_data.destination,
         predicted_delay_days |-> chosen.delay_estimate_days,
         risk_level |-> chosen.risk_level,
         risk_factors |-> chosen.risk_factors,
         confidence |-> IF chosen.risk_level = "High" THEN 85 ELSE 70]

predict_shipment_delays(product_id) ==
    LET shipments_data == InTransit(product_id)
    IN  [n \in 1..Len(shipments_data) |-> Prediction(shipments_data[n])]

Max(a, b) == IF a > b THEN a ELSE b

Min(a, b) == IF a < b THEN a ELSE b

\* the estimate without its max(0, .)
days_until_stockoutUnclamped(product) == (product.stock_level - 5) \div 2

\* max(0, (stock_level - 5) // 2), // rounding towards minus infinity
days_until_stockout(product) == Max(0, (product.stock_level - 5) \div 2)

adjusted_lead_time(product) ==
    product.lead_time_days + assess_location(product.supplier_location).delay_estimate_days

\* the urgency ladder with inclusive comparisons
UrgencyInclusive(product) ==
    IF days_until_stockout(product) <= adjusted_lead_time(product) THEN "High"
    ELSE IF days_until_stockout(product) <= adjusted_lead_time(product) + 7 THEN "Medium"
    ELSE "Low"

Urgency(product) ==
    IF days_until_stockout(product) < adjusted_lead_time(product) THEN "High"
    ELSE IF days_until_stockout(product) < adjusted_lead_time(product) + 7 THEN "Medium"
    ELSE "Low"

\* reorder_now is set by both branches that raise the urgency
reorder_now(product) == Urgency(product) # "Low"

\* the emission test without its stock_level <= reorder_threshold disjunct
ShouldRecommendTimingOnly(product) == reorder_now(product)

ShouldRecommend(product) ==
    reorder_now(product) \/ product.stock_level <= product.reorder_threshold

Recommendation(product) ==
    [product_id |-> product.id,
     current_stock |-> product.stock_level,
     reorder_threshold |-> product.reorder_threshold,
     normal_lead_time |-> product.lead_time_days,
     adjusted_lead_time |-> adjusted_lead_time(product),
     days_until_stockout |-> days_until_stockout(product),
     urgency |-> Urgency(product),
     recommended_quantity |-> Max(50, product.reorder_threshold * 2)]

RECURSIVE ReorderLoop(_, _)
ReorderLoop(rows, i) ==
    IF i > Len(rows) THEN << >>
    ELSE (IF ShouldRecommend(rows[i]) THEN <<Recommendation(rows[i])>> ELSE << >>)
         \o ReorderLoop(rows, i + 1)

calculate_reorder_recommendations == ReorderLoop(get_all_products, 1)

CountStatus(rows, status) == Cardinality({i \in 1..Len(rows) : rows[i].status = status})

\* list(set(...)): the distinct supplier locations; only their number is used in the score
supplier_locations(rows) == {rows[i].supplier_location : i \in 1..Len(rows)}

high_risk_locations(rows) ==
    {[location |-> l, risk_level |-> assess_location(l).risk_level] :
        l \in {x \in supplier_locations(rows) :
                   assess_location(x).risk_level \in {"High", "Medium"}}}

\* the score bounded from above only
ClampUpperOnly(score) == Min(100, score)

Clamp(score) == Max(0, Min(100, score))

health_status(resilience_score) ==
    IF resilience_score >= 80 THEN "Excellent"
    ELSE IF resilience_score >= 60 THEN "Good"
    ELSE IF resilience_score >= 40 THEN "Fair"
    ELSE "At Risk"

assess_supply_chain_resilience ==
    LET rows == get_all_products
        active == get_active_alerts
        critical_products == CountStatus(rows, "Critical")
        low_products == CountStatus(rows, "Low")
        ok_products == CountStatus(rows, "OK")
        risky == high_risk_locations(rows)
        resilience_score ==
            Clamp(100 - critical_products * 15 - low_products * 5
                      - Cardinality(risky) * 10 - Len(active) * 5)
    IN  [resilience_score |-> resilience_score,
         health_status |-> health_status(resilience_score),
         inventory_breakdown |-> [total |-> Len(rows), critical |-> critical_products,
                                  low |-> low_products, ok |-> ok_products],
         active_alerts |-> Len(active),
         high_risk_locations |-> risky]

(***************************************************************************)
(* The strategy agent's tool calls, next to scans, over a provider that    *)
(* answers or fails per location and per call                              *)
(***************************************************************************)
AssessedLocations ==
    {"Mumbai, India", "Kochi, India", "Florida, USA", "California, USA", "Seoul, South Korea"}

PredictArgs == {None, "chip-x", "SENS-9", "PWR-MOD"}

Answer(op, result) == [NoCall EXCEPT !.op = op, !.prev = OpTag, !.result = result]

AssessLogisticsRisk ==
    \E location \in AssessedLocations :
        /\ last' = Answer("assess", assess_location(location))
        /\ UNCHANGED <<products, shipments, alerts, next_id, publisher, notified, scan, wx,
                       weather_service>>

PredictShipmentDelays ==
    \E product_id \in PredictArgs :
        /\ last' = [Answer("predict", predict_shipment_delays(product_id))
                        EXCEPT !.product_id = product_id]
        /\ UNCHANGED <<products, shipments, alerts, next_id, publisher, notified, scan, wx,
                       weather_service>>

CalculateReorderRecommendations ==
    /\ last' = Answer("reorder", calculate_reorder_recommendations)
    /\ UNCHANGED <<products, shipments, alerts, next_id, publisher, notified, scan, wx,
                   weather_service>>

AssessSupplyChainResilience ==
    /\ last' = Answer("resilience", assess_supply_chain_resilience)
    /\ UNCHANGED <<products, shipments, alerts, next_id, publisher, notified, scan, wx,
                   weather_service>>

\* what the provider answers for one location: each of the two calls fails or answers
ProviderScenarios ==
    { [current |-> Failed, forecast |-> Failed],
      [current |-> Answered([condition |-> "Thunderstorm", wind_speed |-> 16]),
       forecast |-> Failed],
      [current |-> Answered([condition |-> "Rain", wind_speed |-> 12]),
       forecast |-> Answered(<<[condition |-> "Snow"]>>)],
      [current |-> Failed,
       forecast |-> Answered(<<[condition |-> "Snow"], [condition |-> "Snow"]>>)] }

\* the two endpoints of the seeded in-transit CHIP-X shipment get their own scenario,
\* every other location shares one
VariedLocations == {"Mumbai, India", "California, USA"}

\* product tables: the seeded one, every product out of stock, and the seeded one with
\* a large-threshold PWR-MOD and a slow DISPLAY-HD supplier
OutOfStock ==
    [i \in 1..Len(sample_products) |->
        [sample_products[i] EXCEPT !.stock_level = 0, !.status = "Critical"]]

LargeThreshold ==
    [i \in 1..Len(sample_products) |->
        IF sample_products[i].id = "PWR-MOD"
        THEN [sample_products[i] EXCEPT !.stock_level = 60, !.reorder_threshold = 100,
                                        !.lead_time_days = 17, !.status = "Low"]
        ELSE IF sample_products[i].id = "DISPLAY-HD"
        THEN [sample_products[i] EXCEPT !.lead_time_days = 22]
        ELSE sample_products[i]]

ProductTables == {sample_products, OutOfStock, LargeThreshold}

\* the seeded shipments, a second CHIP-X shipment on its way and a delivered one
tracked_shipments ==
    sample_shipments \o
        << ShipmentTracking("CHIP-X", "Kochi, India", "Florida, USA", "in_transit", 0),
           ShipmentTracking("LOGIC-A", "Shenzhen, China", "Texas, USA", "delivered", 0) >>

InitStrat ==
    /\ products \in ProductTables
    /\ shipments = tracked_shipments
    /\ alerts = << >>
    /\ next_id = 1
    /\ publisher = FALSE
    /\ notified = << >>
    /\ last = NoCall
    /\ scan = [s \in Scanners |-> Idle]
    /\ wx = NoAssessment
    /\ \/ weather_service = MockService
       \/ \E varied \in [VariedLocations -> ProviderScenarios], other \in ProviderScenarios :
            weather_service =
                [mock_mode |-> FALSE,
                 current |-> [l \in Locations |->
                     IF l \in VariedLocations THEN varied[l].current ELSE other.current],
                 forecast |-> [l \in Locations |->
                     IF l \in VariedLocations THEN varied[l].forecast ELSE other.forecast]]

NextStrat ==
    \/ AssessLogisticsRisk
    \/ PredictShipmentDelays
    \/ CalculateReorderRecommendations
    \/ AssessSupplyChainResilience
    \/ Scan

SpecStrat == InitStrat /\ [][NextStrat]_vars

(***************************************************************************)
(* Reorder planning over stock levels that update_stock has stored for      *)
(* CHIP-X and PWR-MOD                                                       *)
(***************************************************************************)
StockLevels == 0..MaxStock

Restocked(table, product_id, stock) ==
    [i \in 1..Len(table) |->
        IF table[i].id = product_id
        THEN [table[i] EXCEPT !.stock_level = stock,
                              !.status = StockStatus(stock, table[i].reorder_threshold)]
        ELSE table[i]]

InitStockout ==
    /\ \E a \in StockLevels, b \in StockLevels :
          products = Restocked(Restocked(sample_products, "CHIP-X", a), "PWR-MOD", b)
    /\ shipments = sample_shipments
    /\ alerts = << >>
    /\ next_id = 1
    /\ publisher = FALSE
    /\ notified = << >>
    /\ last = NoCall
    /\ scan = [s \in Scanners |-> Idle]
    /\ wx = NoAssessment
    /\ weather_service = MockService

NextStockout == CalculateReorderRecommendations

SpecStockout == InitStockout /\ [][NextStockout]_vars

(***************************************************************************)
(* Properties of the alert table                                           *)
(***************************************************************************)
KeyOf(a) == <<a.product_id, a.alert_type>>

AlertIds == 1..Len(alerts)

Range(f) == {f[i] : i \in DOMAIN f}

\* the keys whose triggering condition holds in the store now
TriggeredKeys == {KeyOf(r) : r \in Range(ScanRequests)}

ScanReturned == last.op = "scan" /\ ~last.raised

\* the status the data model derives from stock level and threshold
DerivedStatus(stock_level, reorder_threshold) ==
    IF stock_level = 0 THEN "Critical"
    ELSE IF 0 < stock_level /\ stock_level <= reorder_threshold THEN "Low"
    ELSE "OK"

\* C1: after any sequence of scans and stock updates there is at most one
\* unresolved alert per (product_id, alert_type)
AtMostOneUnresolvedPerKey ==
    \A i, j \in AlertIds :
        (KeyOf(alerts[i]) = KeyOf(alerts[j]) /\ ~alerts[i].resolved /\ ~alerts[j].resolved)
            => i = j

\* C2: a scan that directly follows a scan, with no update in between, creates
\* no alert: it returns the empty list and leaves the alert table as it was
ScanIdempotent ==
    (ScanReturned /\ last.prev = "scan")
        => (last.returned = << >> /\ Len(alerts) = last.before)

\* C3: when a scan has returned, every alert whose triggering condition no
\* longer holds is resolved and carries a resolved_at, so the active alerts
\* are those whose condition holds
ScanResolvesCleared ==
    ScanReturned =>
        \A i \in AlertIds :
            /\ KeyOf(alerts[i]) \notin TriggeredKeys => alerts[i].resolved
            /\ alerts[i].resolved => alerts[i].resolved_at # None

\* the notification attempts made for alerts of key k
NotificationsFor(k) ==
    {n \in 1..Len(notified) :
        \E i \in AlertIds : alerts[i].id = notified[n].alert_id /\ KeyOf(alerts[i]) = k}

\* C4: a High key is notified once per Absent->Active transition: once for its
\* first alert and once more only after an earlier alert of the key was resolved
NotifiedOncePerActivation ==
    \A i \in AlertIds :
        alerts[i].severity = "High" =>
            LET k == KeyOf(alerts[i])
                resolvedOfKey == {j \in AlertIds : KeyOf(alerts[j]) = k /\ alerts[j].resolved}
            IN /\ Cardinality(NotificationsFor(k)) >= 1
               /\ Cardinality(NotificationsFor(k)) <= Cardinality(resolvedOfKey) + 1

\* the entries of the returned list for one product and alert type
ReturnedFor(product_id, alert_type) ==
    {n \in 1..Len(last.returned) :
        /\ last.returned[n].product_id = product_id
        /\ last.returned[n].alert_type = alert_type}

SeverityOf(ns) == {last.returned[n].severity : n \in ns}

\* C5: a scan raises critical_stock/High for stock <= 0, low_stock/Medium for
\* 0 < stock <= threshold, nothing for stock > threshold, never both for one
\* product, and delayed_shipment/High for exactly the delayed shipments with
\* delay_days > 3
TriggerRules ==
    ScanReturned =>
        /\ \A i \in 1..Len(products) :
              LET p == products[i]
                  crit == ReturnedFor(p.id, "critical_stock")
                  low == ReturnedFor(p.id, "low_stock")
              IN /\ p.stock_level <= 0 =>
                       Cardinality(crit) = 1 /\ SeverityOf(crit) = {"High"} /\ low = {}
                 /\ (0 < p.stock_level /\ p.stock_level <= p.reorder_threshold) =>
                       Cardinality(low) = 1 /\ SeverityOf(low) = {"Medium"} /\ crit = {}
                 /\ p.stock_level > p.reorder_threshold => (crit = {} /\ low = {})
                 /\ LET late == {m \in 1..Len(shipments) :
                                    /\ shipments[m].product_id = p.id
                                    /\ shipments[m].status = "delayed"
                                    /\ shipments[m].delay_days > 3}
                        del == ReturnedFor(p.id, "delayed_shipment")
                    IN Cardinality(del) = Cardinality(late) /\ SeverityOf(del) \subseteq {"High"}
        /\ \A n \in 1..Len(last.returned) :
              /\ last.returned[n].alert_type \in {"critical_stock", "low_stock", "delayed_shipment"}
              /\ \E i \in 1..Len(products) : products[i].id = last.returned[n].product_id

\* a scan has returned over a store with an out-of-stock product, a low
\* product, a delayed shipment of exactly 3 days and one of more than 3
TriggerRulesWitness ==
    /\ ScanReturned
    /\ \E i \in 1..Len(products) : products[i].stock_level <= 0
    /\ \E i \in 1..Len(products) :
          0 < products[i].stock_level /\ products[i].stock_level <= products[i].reorder_threshold
    /\ \E m \in 1..Len(shipments) : shipments[m].status = "delayed" /\ shipments[m].delay_days = 3
    /\ \E m \in 1..Len(shipments) : shipments[m].status = "delayed" /\ shipments[m].delay_days > 3
    /\ Len(last.returned) = 3

\* C7: a scan in which an alert insert fails still returns normally and has
\* created the alerts of all other triggering products and shipments
PartialFailureTolerant ==
    (last.op = "scan" /\ last.failed # NoRequest) =>
        /\ ~last.raised
        /\ \A r \in Range(ScanRequests) :
              KeyOf(r) # KeyOf(last.failed) =>
                  \E n \in 1..Len(last.returned) : KeyOf(last.returned[n]) = KeyOf(r)

\* C8: every product's stored status is the one derived from its stock level
\* and reorder threshold
StatusIsDerived ==
    \A i \in 1..Len(products) :
        products[i].status = DerivedStatus(products[i].stock_level, products[i].reorder_threshold)

\* C9: update_stock with new_stock >= 0 on an existing product leaves the status
\* that (new_stock, threshold) alone determine
UpdateStockStatus ==
    (last.op = "update" /\ last.ok) =>
        LET p == products[RowOf(products, last.product_id)]
        IN (p.stock_level >= 0 /\ p.reorder_threshold >= 0) =>
              /\ p.status \in Statuses
              /\ p.status = DerivedStatus(p.stock_level, p.reorder_threshold)

\* update_stock has stored a stock equal to a positive threshold: status Low
UpdateStockStatusWitness ==
    /\ last.op = "update" /\ last.ok
    /\ LET p == products[RowOf(products, last.product_id)]
       IN p.stock_level = p.reorder_threshold /\ p.stock_level > 0 /\ p.status = "Low"

\* C6: while two scans are in flight over the same products there is still at
\* most one unresolved alert per (product_id, alert_type)
ConcurrentScansKeepOnePerKey ==
    (\A s \in Scanners : scan[s].pc # "idle") =>
        \A k \in {KeyOf(alerts[i]) : i \in AlertIds} :
            Cardinality({i \in AlertIds : KeyOf(alerts[i]) = k /\ ~alerts[i].resolved}) <= 1

(***************************************************************************)
(* Properties of the risk assessment                                       *)
(***************************************************************************)
IsSevere == Lower(wx.weather.condition) \in SevereConditions
IsAdverse == Lower(wx.weather.condition) \in AdverseConditions /\ wx.weather.wind_speed > 10
IsWindy == wx.weather.wind_speed > 15

\* the forecast days on which the forecast rule fires
FiringDays == {i \in 1..Len(wx.forecast) : Lower(wx.forecast[i].condition) \in ForecastConditions}

\* the maximum severity of the rules that fire
MaxSeverity ==
    IF IsSevere THEN "High"
    ELSE IF IsAdverse \/ IsWindy \/ FiringDays # {} THEN "Medium"
    ELSE "Low"

\* C10 as stated: the level is the maximum severity of the rules that fire and
\* the delay is the sum of the increments of all rules that fire, the
\* current-condition rules counted independently of each other
DelaySumsAllRules ==
    wx.assessed =>
        /\ wx.result.risk_level = MaxSeverity
        /\ wx.result.delay_estimate_days =
              (IF IsSevere THEN 3 ELSE 0) + (IF IsAdverse THEN 1 ELSE 0)
                  + (IF IsWindy THEN 1 ELSE 0) + 2 * Cardinality(FiringDays)

\* C10 amended: the level is the maximum severity of the rules that fire; of
\* the three current-condition rules only the first that fires, in the order
\* severe, adverse precipitation with wind > 10, wind > 15, adds its
\* increment, and every forecast day on which the forecast rule fires adds 2
DelaySumsFirstCurrentRule ==
    wx.assessed =>
        /\ wx.result.risk_level = MaxSeverity
        /\ wx.result.delay_estimate_days =
              (IF IsSevere THEN 3 ELSE IF IsAdverse \/ IsWindy THEN 1 ELSE 0)
                  + 2 * Cardinality(FiringDays)

\* a current thunderstorm with wind > 15 and a firing forecast day was assessed
DelaySumsWitness ==
    /\ wx.assessed
    /\ IsSevere /\ IsWindy
    /\ FiringDays # {}
    /\ wx.result.delay_estimate_days = 3 + 2 * Cardinality(FiringDays)

\* the forecast entries whose lower-cased condition is in S
DaysIn(S) == {i \in 1..Len(wx.forecast) : Lower(wx.forecast[i].condition) \in S}

UpcomingFactors ==
    {n \in 1..Len(wx.result.risk_factors) : wx.result.risk_factors[n] = "Upcoming"}

CurrentDelay == IF IsSevere THEN 3 ELSE IF IsAdverse \/ IsWindy THEN 1 ELSE 0

CurrentLevel == IF IsSevere THEN "High" ELSE IF IsAdverse \/ IsWindy THEN "Medium" ELSE "Low"

\* exactly the forecast days with a condition in S add 2 days and a factor each
\* and raise the level to at least Medium; the other days add nothing
ForecastRuleOver(S) ==
    wx.assessed =>
        /\ Cardinality(UpcomingFactors) = Cardinality(DaysIn(S))
        /\ wx.result.delay_estimate_days = CurrentDelay + 2 * Cardinality(DaysIn(S))
        /\ DaysIn(S) # {} => wx.result.risk_level \in {"Medium", "High"}
        /\ DaysIn(S) = {} => wx.result.risk_level = CurrentLevel

\* C11 as stated: the forecast rule fires on the class that makes a current
\* condition High: thunderstorm, tornado, hurricane
ForecastRuleSevereClass == ForecastRuleOver({"thunderstorm", "tornado", "hurricane"})

\* C11 amended: the forecast rule fires iff the day's condition is
\* thunderstorm, snow or hurricane
ForecastRuleStormSnow == ForecastRuleOver({"thunderstorm", "snow", "hurricane"})

\* a forecast with a snow day and a tornado day was assessed: one factor, 2 days
ForecastRuleWitness ==
    /\ wx.assessed
    /\ DaysIn({"snow"}) # {} /\ DaysIn({"tornado"}) # {}
    /\ Cardinality(UpcomingFactors) = 1
    /\ wx.result.delay_estimate_days = CurrentDelay + 2

(***************************************************************************)
(* Properties of the provider fallback                                     *)
(***************************************************************************)
\* what the synthetic dataset alone yields for a location: Florida is in a
\* thunderstorm, Kochi in windy rain, the synthetic forecast never adds a day
SyntheticLevel(location) ==
    IF location = "Florida, USA" THEN "High"
    ELSE IF location = "Kochi, India" THEN "Medium"
    ELSE "Low"

SyntheticDelay(location) ==
    IF location = "Florida, USA" THEN 3
    ELSE IF location = "Kochi, India" THEN 1
    ELSE 0

SyntheticWeather(location) ==
    CASE location = "Florida, USA" -> [condition |-> "Thunderstorm", wind_speed |-> 18]
      [] location = "Kochi, India" -> [condition |-> "Rain", wind_speed |-> 12]
      [] location = "California, USA" -> [condition |-> "Clear", wind_speed |-> 4]
      [] OTHER -> [condition |-> "Clear", wind_speed |-> 5]

CurrentCallFell(location) ==
    weather_service.mock_mode \/ ~weather_service.current[location].ok

ForecastCallFell(location) ==
    weather_service.mock_mode \/ ~weather_service.forecast[location].ok

UpcomingIn(risk_factors) ==
    {n \in 1..Len(risk_factors) : risk_factors[n] = "Upcoming"}

\* C12: in mock mode and when either provider call fails, the assessment of a
\* location is well formed and built from the synthetic data of the call that
\* fell back; reorder planning and resilience scoring return their results
ProviderFallback ==
    /\ last.op = "assess" =>
          LET r == last.result
              l == r.location
          IN  /\ r.risk_level \in {"Low", "Medium", "High"}
              /\ r.delay_estimate_days >= 0
              /\ CurrentCallFell(l) => r.current_weather = SyntheticWeather(l)
              /\ ForecastCallFell(l) => UpcomingIn(r.risk_factors) = {}
              /\ (CurrentCallFell(l) /\ ForecastCallFell(l)) =>
                    /\ r.risk_level = SyntheticLevel(l)
                    /\ r.delay_estimate_days = SyntheticDelay(l)
              /\ (CurrentCallFell(l) /\ ~ForecastCallFell(l)) =>
                    r.delay_estimate_days =
                        SyntheticDelay(l) + 2 * Cardinality(UpcomingIn(r.risk_factors))
    /\ last.op = "reorder" =>
          \A n \in 1..Len(last.result) :
              last.result[n].adjusted_lead_time >= last.result[n].normal_lead_time
    /\ last.op = "resilience" => last.result.resilience_score \in 0..100

\* Florida was assessed with the provider configured and both calls failing
ProviderFallbackWitness ==
    /\ last.op = "assess"
    /\ last.result.location = "Florida, USA"
    /\ ~weather_service.mock_mode
    /\ ~weather_service.current["Florida, USA"].ok
    /\ ~weather_service.forecast["Florida, USA"].ok
    /\ last.result.risk_level = "High"

(***************************************************************************)
(* Properties of the strategy tools                                        *)
(***************************************************************************)
OriginRisk(prediction) == assess_location(prediction.origin)

DestRisk(prediction) == assess_location(prediction.destination)

\* C13: a prediction's delay is the larger of the two endpoint estimates and
\* its confidence is 0.85 exactly when its risk level is High, 0.7 otherwise
PredictedDelayIsMax ==
    last.op = "predict" =>
        \A n \in 1..Len(last.result) :
            LET r == last.result[n]
            IN  /\ r.predicted_delay_days =
                       Max(OriginRisk(r).delay_estimate_days, DestRisk(r).delay_estimate_days)
                /\ r.confidence = (IF r.risk_level = "High" THEN 85 ELSE 70)

\* a prediction whose origin estimate is the strictly larger one and not High
PredictedDelayWitness ==
    /\ last.op = "predict"
    /\ \E n \in 1..Len(last.result) :
          LET r == last.result[n]
          IN  /\ OriginRisk(r).delay_estimate_days > DestRisk(r).delay_estimate_days
              /\ DestRisk(r).delay_estimate_days > 0
              /\ r.confidence = 70

ReportsSide(r, side) ==
    /\ r.risk_level = side.risk_level
    /\ r.risk_factors = side.risk_factors

\* C14 as stated: level and factors come from the side with the strictly
\* larger estimate, from the origin when the estimates are equal
ReportedRiskPrefersOrigin ==
    last.op = "predict" =>
        \A n \in 1..Len(last.result) :
            LET r == last.result[n]
            IN  IF DestRisk(r).delay_estimate_days > OriginRisk(r).delay_estimate_days
                THEN ReportsSide(r, DestRisk(r))
                ELSE ReportsSide(r, OriginRisk(r))

\* C14 amended: level and factors come from the origin only when its estimate
\* is strictly larger, from the destination otherwise, ties included
ReportedRiskPrefersDestination ==
    last.op = "predict" =>
        \A n \in 1..Len(last.result) :
            LET r == last.result[n]
            IN  IF OriginRisk(r).delay_estimate_days > DestRisk(r).delay_estimate_days
                THEN ReportsSide(r, OriginRisk(r))
                ELSE ReportsSide(r, DestRisk(r))

\* equal estimates, a High origin and a Medium destination: Medium is reported
ReportedRiskWitness ==
    /\ last.op = "predict"
    /\ \E n \in 1..Len(last.result) :
          LET r == last.result[n]
          IN  /\ OriginRisk(r).delay_estimate_days = DestRisk(r).delay_estimate_days
              /\ OriginRisk(r).risk_level = "High"
              /\ DestRisk(r).risk_level = "Medium"
              /\ r.risk_level = "Medium"

RecommendationsFor(product_id) ==
    {n \in 1..Len(last.result) : last.result[n].product_id = product_id}

\* C15: every product with stock at or below its threshold has exactly one
\* reorder recommendation, and no product has more than one
LowStockAlwaysRecommended ==
    last.op = "reorder" =>
        \A i \in 1..Len(products) :
            /\ Cardinality(RecommendationsFor(products[i].id)) <= 1
            /\ products[i].stock_level <= products[i].reorder_threshold =>
                  Cardinality(RecommendationsFor(products[i].id)) = 1

\* a product at or below its threshold that the timing rule alone would skip
LowStockWitness ==
    /\ last.op = "reorder"
    /\ \E n \in 1..Len(last.result) :
          LET r == last.result[n]
          IN  /\ r.current_stock <= r.reorder_threshold
              /\ r.days_until_stockout >= r.adjusted_lead_time + 7

\* C16: urgency follows days_until_stockout against the adjusted lead time,
\* an emitted Low has stock at or below the threshold, and the quantity is
\* max(50, 2 * threshold)
UrgencyLadder ==
    last.op = "reorder" =>
        \A n \in 1..Len(last.result) :
            LET r == last.result[n]
                p == products[RowOf(products, r.product_id)]
                adjusted == p.lead_time_days
                                + assess_location(p.supplier_location).delay_estimate_days
                dus == r.days_until_stockout
            IN  /\ r.adjusted_lead_time = adjusted
                /\ r.urgency \in {"High", "Medium", "Low"}
                /\ r.urgency = "High" <=> dus < adjusted
                /\ r.urgency = "Medium" <=> (adjusted <= dus /\ dus < adjusted + 7)
                /\ r.urgency = "Low" => p.stock_level <= p.reorder_threshold
                /\ r.recommended_quantity =
                       (IF 2 * p.reorder_threshold > 50 THEN 2 * p.reorder_threshold ELSE 50)

\* one answer holding a Medium exactly at the adjusted lead time, a Low exactly
\* seven days past it, and a High
UrgencyLadderWitness ==
    /\ last.op = "reorder"
    /\ \E n \in 1..Len(last.result) :
          /\ last.result[n].urgency = "Medium"
          /\ last.result[n].days_until_stockout = last.result[n].adjusted_lead_time
    /\ \E n \in 1..Len(last.result) :
          /\ last.result[n].urgency = "Low"
          /\ last.result[n].days_until_stockout = last.result[n].adjusted_lead_time + 7
          /\ last.result[n].recommended_quantity = 200
    /\ \E n \in 1..Len(last.result) : last.result[n].urgency = "High"

DerivedCount(status) ==
    Cardinality({i \in 1..Len(products) :
        DerivedStatus(products[i].stock_level, products[i].reorder_threshold) = status})

RiskyLocations ==
    {l \in {products[i].supplier_location : i \in 1..Len(products)} :
        assess_location(l).risk_level \in {"Medium", "High"}}

RawScore(critical, low, risky, unresolved) ==
    100 - 15 * critical - 5 * low - 10 * risky - 5 * unresolved

Clamped(x) == IF x < 0 THEN 0 ELSE IF x > 100 THEN 100 ELSE x

\* C17: the resilience score is the clamped penalty sum over the products whose
\* derived status is Critical or Low, the risky supplier locations and the
\* unresolved alerts
ScoreUsesDerivedStatus ==
    last.op = "resilience" =>
        last.result.resilience_score =
            Clamped(RawScore(DerivedCount("Critical"), DerivedCount("Low"),
                             Cardinality(RiskyLocations), Len(get_active_alerts)))

\* C18: the resilience score lies in 0..100 and the health band is the one its
\* score falls in
ScoreInRangeAndBanded ==
    last.op = "resilience" =>
        LET score == last.result.resilience_score
            band == last.result.health_status
        IN  /\ score \in 0..100
            /\ band = "Excellent" <=> score >= 80
            /\ band = "Good" <=> (60 <= score /\ score < 80)
            /\ band = "Fair" <=> (40 <= score /\ score < 60)
            /\ band = "At Risk" <=> score < 40

\* a penalty sum below zero was reported as score 0, band At Risk
ScoreClampedWitness ==
    /\ last.op = "resilience"
    /\ RawScore(last.result.inventory_breakdown.critical, last.result.inventory_breakdown.low,
                Cardinality(last.result.high_risk_locations), last.result.active_alerts) < 0
    /\ last.result.resilience_score = 0
    /\ last.result.health_status = "At Risk"

(***************************************************************************)
(* Properties of notifications and alert ids                               *)
(***************************************************************************)
\* C19: an alert whose Pub/Sub publish failed still gets its console record,
\* and without a publisher every notified alert gets the console record
ChannelsIndependent ==
    /\ \A n \in 1..Len(notified) :
          (notified[n].channel = "pubsub" /\ ~notified[n].ok) =>
              \E m \in 1..Len(notified) :
                  notified[m].alert_id = notified[n].alert_id /\ notified[m].channel = "console"
    /\ ~publisher =>
          \A i \in AlertIds :
              alerts[i].severity \in {"High", "Critical"} =>
                  \E m \in 1..Len(notified) :
                      /\ notified[m].alert_id = alerts[i].id
                      /\ notified[m].channel = "console" /\ notified[m].ok

\* C20: the ids of the alert rows are pairwise distinct and grow in creation
\* order, so a recurrence for a key gets an id no earlier alert has
AlertIdsDistinct ==
    \A i, j \in AlertIds : i < j => alerts[i].id < alerts[j].id

\* a later scan created a second alert for a key that already had one
AlertIdsDistinctWitness ==
    \E i, j \in AlertIds :
        /\ i < j
        /\ KeyOf(alerts[i]) = KeyOf(alerts[j])
        /\ alerts[i].id # alerts[j].id
        /\ last.op = "scan" /\ last.before >= i

(***************************************************************************)
(* Properties of the steps inside one assessment                           *)
(***************************************************************************)
LevelRank(risk_level) ==
    CASE risk_level = "Low" -> 0
      [] risk_level = "Medium" -> 1
      [] risk_level = "High" -> 2

\* the accumulators before any rule (step 0), after the current-condition
\* rules (step 1) and after forecast day k (step k + 1)
AssessmentStep(k) ==
    IF k = 0 THEN [risk_level |-> "Low", delay_estimate_days |-> 0, risk_factors |-> << >>]
    ELSE ForecastLoop(SubSeq(wx.forecast, 1, k - 1), 1, CurrentConditions(wx.weather))

\* C21: from each step of an assessment to the next the delay estimate does
\* not decrease and the risk level is not lowered
AssessmentMonotone ==
    wx.assessed =>
        /\ AssessmentStep(Len(wx.forecast) + 1) = wx.result
        /\ \A k \in 0..Len(wx.forecast) :
              /\ AssessmentStep(k).delay_estimate_days
                     <= AssessmentStep(k + 1).delay_estimate_days
              /\ LevelRank(AssessmentStep(k).risk_level)
                     <= LevelRank(AssessmentStep(k + 1).risk_level)

\* a High set by the current condition went through a forecast day that fired
AssessmentMonotoneWitness ==
    /\ wx.assessed
    /\ AssessmentStep(1).risk_level = "High"
    /\ wx.result.delay_estimate_days > AssessmentStep(1).delay_estimate_days
    /\ wx.result.risk_level = "High"

(***************************************************************************)
(* Properties of the stored stock level                                    *)
(***************************************************************************)
\* C22: no product ever has a negative stock level
StockNeverNegative ==
    \A i \in 1..Len(products) : products[i].stock_level >= 0

(***************************************************************************)
(* Properties of the set of predictions                                    *)
(***************************************************************************)
PredictionsOf(shipment) ==
    {n \in 1..Len(last.result) :
        /\ last.result[n].product_id = shipment.product_id
        /\ last.result[n].origin = shipment.origin
        /\ last.result[n].destination = shipment.destination}

Requested(shipment) ==
    last.product_id = None \/ shipment.product_id = Upper(last.product_id)

\* C23: the answer holds one prediction for each in-transit shipment of the
\* requested product (of any product when none is given) and nothing else
OnePredictionPerInTransit ==
    last.op = "predict" =>
        /\ \A i \in 1..Len(shipments) :
              Cardinality(PredictionsOf(shipments[i])) =
                  (IF shipments[i].status = "in_transit" /\ Requested(shipments[i])
                   THEN 1 ELSE 0)
        /\ Len(last.result) =
              Cardinality({i \in 1..Len(shipments) :
                  shipments[i].status = "in_transit" /\ Requested(shipments[i])})

\* a lower-case id selected the two in-transit CHIP-X shipments while a
\* delayed and a delivered shipment are stored
OnePredictionWitness ==
    /\ last.op = "predict"
    /\ last.product_id = "chip-x"
    /\ Len(last.result) = 2
    /\ \E i \in 1..Len(shipments) : shipments[i].status = "delayed"
    /\ \E i \in 1..Len(shipments) : shipments[i].status = "delivered"

(***************************************************************************)
(* Properties of the stock-out estimate                                    *)
(***************************************************************************)
\* floor((stock - 5) / 2), and 0 where that is negative
FloorHalfAboveMargin(stock) ==
    IF stock < 5 THEN 0
    ELSE CHOOSE q \in 0..stock : 2 * q <= stock - 5 /\ stock - 5 < 2 * q + 2

\* C24: days_until_stockout is max(0, floor((stock - 5) / 2)), never negative,
\* and does not decrease with the stock level
StockoutDays ==
    last.op = "reorder" =>
        /\ \A n \in 1..Len(last.result) :
              /\ last.result[n].current_stock >= 0 =>
                    last.result[n].days_until_stockout =
                        FloorHalfAboveMargin(last.result[n].current_stock)
              /\ last.result[n].days_until_stockout >= 0
        /\ \A n, m \in 1..Len(last.result) :
              last.result[n].current_stock < last.result[m].current_stock =>
                  last.result[n].days_until_stockout <= last.result[m].days_until_stockout

\* one answer with a stock below the margin of 5 and a stock whose half is
\* rounded down
StockoutDaysWitness ==
    /\ last.op = "reorder"
    /\ \E n, m \in 1..Len(last.result) :
          /\ last.result[n].current_stock = 4
          /\ last.result[n].days_until_stockout = 0
          /\ last.result[m].current_stock = 8
          /\ last.result[m].days_until_stockout = 1

(***************************************************************************)
(* Properties of the alerts one scan returns                               *)
(***************************************************************************)
\* C25: the list a scan returns has at most one alert per
\* (product_id, alert_type)
ScanCreatesOnePerKey ==
    ScanReturned =>
        \A n, m \in 1..Len(last.returned) :
            KeyOf(last.returned[n]) = KeyOf(last.returned[m]) => n = m

(***************************************************************************)
(* Properties of the severity a prediction reports                         *)
(***************************************************************************)
\* C26: a prediction's risk level is at least the level of its origin
\* assessment and at least the level of its destination assessment
PredictionAtLeastAsSevere ==
    last.op = "predict" =>
        \A n \in 1..Len(last.result) :
            LET r == last.result[n]
            IN  /\ LevelRank(r.risk_level) >= LevelRank(OriginRisk(r).risk_level)
                /\ LevelRank(r.risk_level) >= LevelRank(DestRisk(r).risk_level)

\* the case of the divergence: the High endpoint has the strictly smaller estimate
HighEndpointOutweighed ==
    /\ last.op = "predict"
    /\ \E n \in 1..Len(last.result) :
          LET r == last.result[n]
          IN  /\ OriginRisk(r).risk_level = "High"
              /\ OriginRisk(r).delay_estimate_days < DestRisk(r).delay_estimate_days
              /\ r.risk_level = "Medium"

(***************************************************************************)
(* Properties relating level, delay and factors of one assessment          *)
(***************************************************************************)
CurrentFactors ==
    {n \in 1..Len(wx.result.risk_factors) : wx.result.risk_factors[n] # "Upcoming"}

\* the increment of the current-condition rule whose factor is in the result
CurrentIncrement ==
    IF \E n \in CurrentFactors : wx.result.risk_factors[n] = "Severe weather" THEN 3
    ELSE IF CurrentFactors # {} THEN 1
    ELSE 0

\* C27: an assessment is Low exactly when its delay is 0 and exactly when it
\* has no factor, High needs at least 3 days, and the delay is the increment
\* of the one current rule plus 2 per forecast factor
AssessmentConsistent ==
    wx.assessed =>
        /\ Cardinality(CurrentFactors) <= 1
        /\ wx.result.risk_level = "Low" <=> wx.result.delay_estimate_days = 0
        /\ wx.result.delay_estimate_days = 0 <=> wx.result.risk_factors = << >>
        /\ wx.result.risk_level = "High" => wx.result.delay_estimate_days >= 3
        /\ wx.result.delay_estimate_days =
               CurrentIncrement + 2 * Cardinality(UpcomingFactors)

\* no current rule fired and the forecast alone made the assessment Medium
AssessmentConsistentWitness ==
    /\ wx.assessed
    /\ CurrentFactors = {}
    /\ Cardinality(UpcomingFactors) = 2
    /\ wx.result.risk_level = "Medium"
    /\ wx.result.delay_estimate_days = 4

(***************************************************************************)
(* Properties of the notifications of one scan                             *)
(***************************************************************************)
\* the notification attempts the last scan made
SentByScan == {n \in 1..Len(notified) : n > Len(notified) - last.sent}

HighReturned == {m \in 1..Len(last.returned) : last.returned[m].severity = "High"}

\* C28: a scan notifies exactly its High alerts, once each, never a Medium
\* one; every notification belongs to a stored alert, and a failed publish
\* leaves the scan returning all its alerts
ScanNotifiesHigh ==
    /\ \A n \in 1..Len(notified) :
          \E i \in AlertIds :
              alerts[i].id = notified[n].alert_id /\ alerts[i].severity = "High"
    /\ ScanReturned =>
          /\ last.sent = Cardinality(HighReturned)
          /\ \A m \in 1..Len(last.returned) :
                Cardinality({n \in SentByScan :
                                notified[n].alert_id = last.returned[m].alert_id})
                    = (IF m \in HighReturned THEN 1 ELSE 0)
          /\ Len(last.returned) = Len(ScanRequests)
          /\ Len(alerts) = last.before + Len(last.returned)

\* a scan returned a Medium and a High alert and the publish for the High one failed
ScanNotifiesHighWitness ==
    /\ ScanReturned
    /\ \E m \in 1..Len(last.returned) : last.returned[m].severity = "Medium"
    /\ \E n \in SentByScan : ~notified[n].ok
    /\ HighReturned # {}

(***************************************************************************)
(* Frame conditions of the scan and of the stock update                    *)
(***************************************************************************)
ScanFrame ==
    last'.op = "scan" =>
        /\ products' = products
        /\ shipments' = shipments
        /\ Len(alerts') >= Len(alerts)
        /\ SubSeq(alerts', 1, Len(alerts)) = alerts
        /\ ~last'.raised => Len(alerts') = Len(alerts) + Len(last'.returned)

UpdateFrame ==
    last'.op = "update" =>
        /\ alerts' = alerts
        /\ shipments' = shipments
        /\ notified' = notified
        /\ Len(products') = Len(products)
        /\ \A i \in 1..Len(products) :
              /\ products[i].id # last'.product_id => products'[i] = products[i]
              /\ products'[i].id = products[i].id
              /\ products'[i].reorder_threshold = products[i].reorder_threshold
              /\ products'[i].supplier_location = products[i].supplier_location
              /\ products'[i].lead_time_days = products[i].lead_time_days
        /\ last'.ok <=> \E i \in 1..Len(products) : products[i].id = last'.product_id
        /\ ~last'.ok => products' = products

\* C29: a scan leaves products and shipments alone and only appends alerts,
\* as many as it returns; update_stock touches only the stock level and the
\* status of the product it names, and nothing when the id is unknown
FrameConditions == [][ScanFrame /\ UpdateFrame]_vars

\* an update of an unknown id was refused after a scan had stored alerts
FrameConditionsWitness ==
    /\ last.op = "update"
    /\ ~last.ok
    /\ last.prev = "scan"
    /\ Len(alerts) > 0

(***************************************************************************)
(* Properties of the resilience score across scans                         *)
(***************************************************************************)
\* C30: a scan that follows a scan leaves the resilience score as it was
RescanKeepsScore ==
    [][(last.op = "scan" /\ ~last.raised /\ last'.op = "scan" /\ ~last'.raised) =>
          assess_supply_chain_resilience'.resilience_score
              = assess_supply_chain_resilience.resilience_score]_vars

====
